---- MODULE Spec2Model ----
(***************************************************************************)
(* A model of the baseline JPEG decoder of rust-image-decoder:             *)
(*   jpeg/jpeg_reader.rs  the byte reader and the marker recognition,      *)
(*   jpeg/header.rs       the header parser (SOI .. SOS),                  *)
(*   jpeg/jpeg_core.rs    entropy extraction, block decode, assembly,      *)
(*   bitstream.rs         the MSB-first bit reader,                        *)
(*   jpeg/mod.rs          the decode entry point.                          *)
(* One behaviour is one call of decode on one input byte sequence.         *)
(* Sample values (the floating point IDCT, the stretch, the colour         *)
(* conversion) are not tracked: none of them can fail (the casts           *)
(* saturate), so they do not influence how a decode ends.                  *)
(***************************************************************************)
EXTENDS Integers, Sequences, FiniteSets, TLC

VARIABLES
    data,             \* JPEGDecoder::image_data, the input byte slice
    overflow_checks,  \* build profile: TRUE panics on integer overflow, FALSE wraps
    pos,              \* JPEGParser::cursor position (0-based)
    pc,               \* where decode is: Init, InitFill, Headers, HeadersFill,
                      \* ScanFirst, ScanLoop, Blocks, Done
    word,             \* the word read by read_next_marker (kept during marker fill)
    header,           \* HeaderInfo
    current_byte,     \* read_huffman_data: current_byte
    huffman_data,     \* read_huffman_data: the unescaped entropy buffer
    bitstream,        \* Bitstream cursor: [byte_cursor, bit_cursor]
    dc_predictions,   \* JPEGDecoder::dc_predictions (index 0 first)
    mcus_decoded,     \* number of decode_block calls that returned Ok
    result,           \* [status, kind, msg]: running | bitmap | error | panic
    bitmap,           \* the returned Bitmap: [channels, size, len]
    component_block   \* decode_block: the plane of the component at its stretch
                      \* (rows of samples; followed in StretchSpec only)

vars == <<data, overflow_checks, pos, pc, word, header, current_byte,
          huffman_data, bitstream, dc_predictions, mcus_decoded, result, bitmap,
          component_block>>

-----------------------------------------------------------------------------
(* Results of fallible operations: Ok carries the new cursor position and  *)
(* a value; Err is an Error value of error.rs; Panic is a Rust panic.      *)
(* The body of a Rust function is a chain of steps, each taking the result *)
(* of the step before it: a step passes a failure on unchanged (the `?`    *)
(* operator, or the unwinding of a panic).                                 *)

Ok(p, v) == [st |-> "ok", pos |-> p, val |-> v, kind |-> "", msg |-> ""]

Err(k, m) == [st |-> "err", pos |-> 0, val |-> 0, kind |-> k, msg |-> m]

Panic(m) == [st |-> "panic", pos |-> 0, val |-> 0, kind |-> "panic", msg |-> m]

Malformed(m) == Err("Malformed", m)

UnsupportedFeature(m) == Err("UnsupportedFeature", m)

InternalError(m) == Err("InternalError", m)

EndOfInput == "Unexpected end of input"

-----------------------------------------------------------------------------
(* jpeg_reader.rs: markers                                                 *)

SOI == \HFFD8
EOI == \HFFD9
SOF0 == \HFFC0
DHT == \HFFC4
DQT == \HFFDB
SOS == \HFFDA
RST == \HFFDD
COM == \HFFFE
DHP == \HFFDE
EXP == \HFFDF
APP0 == \HFFE0
APP15 == \HFFEF
RST0 == \HFFD0
RST7 == \HFFD7
\* RESERVED1 = 0xFF1 .. RESERVED13 = 0xFFD: three hex digits in the source
RESERVED1 == \H0FF1
RESERVED13 == \H0FFD

\* The discriminants of enum JPEGMarker: FromPrimitive::from_u16 is Some
\* exactly for these words.
JPEGMarker ==
    (APP0..APP15) \cup (RESERVED1..RESERVED13) \cup (RST0..RST7)
        \cup {DHP, EXP, DHT, DQT, EOI, RST, SOF0, SOI, SOS, COM}

\* a to_marker that takes every word for a marker
to_marker_AnyWord(w) == Ok(0, w)

\* to_marker: every variant of the enum is accepted by one of the range
\* tests or by the match; every other word is Malformed.
to_marker(w) ==
    IF w \in JPEGMarker
    THEN IF (w >= RESERVED1 /\ w <= RESERVED13)
            \/ (w >= RST0 /\ w <= RST7)
            \/ (w >= APP0 /\ w <= APP15)
            \/ w \in {COM, DHP, EXP, EOI, DHT, DQT, RST, SOF0, SOI, SOS}
         THEN Ok(0, w)
         ELSE Malformed("Marker not supported. Newly added marker may need to be implemented.")
    ELSE Malformed("Marker not supported")

-----------------------------------------------------------------------------
(* jpeg_reader.rs: the cursor                                              *)

\* a read_u16 that takes the low byte first
read_next_word_LittleEndian(p) ==
    IF p + 2 <= Len(data)
    THEN Ok(p + 2, data[p + 1] + 256 * data[p + 2])
    ELSE Malformed(EndOfInput)

read_next_word(p) ==
    IF p + 2 <= Len(data)
    THEN Ok(p + 2, 256 * data[p + 1] + data[p + 2])
    ELSE Malformed(EndOfInput)

\* a read_u8 that leaves the cursor where it is
read_next_byte_NoAdvance(p) ==
    IF p + 1 <= Len(data)
    THEN Ok(p, data[p + 1])
    ELSE Malformed(EndOfInput)

read_next_byte(p) ==
    IF p + 1 <= Len(data)
    THEN Ok(p + 1, data[p + 1])
    ELSE Malformed(EndOfInput)

\* u16 subtraction `len - 2`: panics under overflow checks, wraps otherwise.
SubU16(a, b) ==
    IF a >= b THEN Ok(0, a - b)
    ELSE IF overflow_checks THEN Panic("attempt to subtract with overflow")
    ELSE Ok(0, a - b + 65536)

\* A parser state is Ok(cursor, the values read so far).
Start(p) == Ok(p, <<>>)

Last(s) == s.val[Len(s.val)]

\* a step that moves the cursor: r is the result of a read at s.pos
Read(s, r) ==
    IF r.st # "ok" THEN r
    ELSE Ok(r.pos, Append(s.val, r.val))

\* a step that replaces the value read last by r, the result of a computation
SetLast(s, r) ==
    IF r.st # "ok" THEN r
    ELSE Ok(s.pos, [s.val EXCEPT ![Len(s.val)] = r.val])

\* `reader.read_next_byte()?`
Byte(s) == IF s.st # "ok" THEN s ELSE Read(s, read_next_byte(s.pos))

\* `reader.read_next_word()?`
Word(s) == IF s.st # "ok" THEN s ELSE Read(s, read_next_word(s.pos))

\* `reader.read_next_word()? - 2`
LengthMinus2(s) == IF s.st # "ok" THEN s ELSE SetLast(s, SubU16(Last(s), 2))

\* Cursor::seek(SeekFrom::Current(n)) with n >= 0 never fails; it may leave
\* the cursor beyond the end of the slice.
Seek(s) == IF s.st # "ok" THEN s ELSE Ok(s.pos + Last(s), 0)

skip_marker_with_length(p) == Seek(LengthMinus2(Word(Start(p))))

\* read_next_marker: the loop entered on the word 0xFFFF, with the cursor at p
RECURSIVE MarkerLoop(_, _, _)
MarkerLoop(w, p, next) ==
    IF next.st # "ok" THEN next
    ELSE IF next.val = 0 THEN Malformed("Invalid JPEG file")
    ELSE IF w = 255
         THEN to_marker(65280 + next.val)
         ELSE MarkerLoop(w, next.pos, read_next_byte(next.pos))

\* read_next_marker: the match on to_marker(word)
MarkerMatch(w, m) ==
    IF m.st = "ok" THEN Ok(w.pos, m.val)
    ELSE IF w.val # 65535 THEN Malformed("Invalid JPEG file")
    ELSE MarkerLoop(w.val, w.pos, read_next_byte(w.pos))

MarkerWord(w) == IF w.st # "ok" THEN w ELSE MarkerMatch(w, to_marker(w.val))

read_next_marker(p) == MarkerWord(read_next_word(p))

-----------------------------------------------------------------------------
(* jpeg_core.rs: ZIGZAG_MAP, zig-zag position (1-based here) -> (row, col)  *)

ZIGZAG_MAP ==
    << <<0, 0>>, <<0, 1>>, <<1, 0>>, <<2, 0>>, <<1, 1>>, <<0, 2>>, <<0, 3>>, <<1, 2>>,
       <<2, 1>>, <<3, 0>>, <<4, 0>>, <<3, 1>>, <<2, 2>>, <<1, 3>>, <<0, 4>>, <<0, 5>>,
       <<1, 4>>, <<2, 3>>, <<3, 2>>, <<4, 1>>, <<5, 0>>, <<6, 0>>, <<5, 1>>, <<4, 2>>,
       <<3, 3>>, <<2, 4>>, <<1, 5>>, <<0, 6>>, <<0, 7>>, <<1, 6>>, <<2, 5>>, <<3, 4>>,
       <<4, 3>>, <<5, 2>>, <<6, 1>>, <<7, 0>>, <<7, 1>>, <<6, 2>>, <<5, 3>>, <<4, 4>>,
       <<3, 5>>, <<2, 6>>, <<1, 7>>, <<2, 7>>, <<3, 6>>, <<4, 5>>, <<5, 4>>, <<6, 3>>,
       <<7, 2>>, <<7, 3>>, <<6, 4>>, <<5, 5>>, <<4, 6>>, <<3, 7>>, <<4, 7>>, <<5, 6>>,
       <<6, 5>>, <<7, 4>>, <<7, 5>>, <<6, 6>>, <<5, 7>>, <<6, 7>>, <<7, 6>>, <<7, 7>> >>

MaxOf(S) == CHOOSE x \in S : \A y \in S : y <= x

RECURSIVE SumSeq(_)
SumSeq(s) == IF s = <<>> THEN 0 ELSE Head(s) + SumSeq(Tail(s))

-----------------------------------------------------------------------------
(* header.rs: HeaderInfo and its parsers                                   *)

\* HeaderInfo::default()
DefaultHeader ==
    [frame_info |-> [precision |-> 0, image_size |-> <<0, 0>>,
                     padded_size |-> <<0, 0>>, components |-> <<>>],
     scan_info |-> [components |-> <<>>, spectral_selection |-> <<0, 0>>,
                    successive_approximation |-> 0],
     components |-> <<>>,
     ac_huff_tables |-> <<>>,
     dc_huff_tables |-> <<>>,
     quant_tables |-> <<>>,
     header_length |-> 0,
     mcu_info |-> [max_xy_sampling_factor |-> <<0, 0>>, mcu_size |-> <<0, 0>>,
                   mcu_dimensions |-> <<0, 0>>, mcu_padded_dimensions |-> <<0, 0>>]]

\* HashMap::extend, HashMap::insert: the entries of `new` replace those of `old`
Extend(old, new) == new @@ old

\* read_start_of_frame: the values read are
\* <<struct size, precision, height, width, component_count,
\*   identifier, sample_factors, qtable_id, ... (once per component)>>
DuplicateIdentifier(s, i) ==
    IF s.st # "ok" THEN s
    ELSE IF \E j \in 0..(i - 1) : s.val[6 + 3 * j] = Last(s)
    THEN Malformed("Duplicate component identifier")
    ELSE s

\* the `for _ in 0..component_count` loop, i components being read
RECURSIVE ReadFrameComponents(_, _)
ReadFrameComponents(s, i) ==
    IF s.st # "ok" THEN s
    ELSE IF i = s.val[5] THEN s
    ELSE ReadFrameComponents(Byte(Byte(DuplicateIdentifier(Byte(s), i))), i + 1)

FrameInfoOf(s) ==
    IF s.st # "ok" THEN s
    ELSE Ok(s.pos,
            [precision |-> s.val[2],
             image_size |-> <<s.val[4], s.val[3]>>,
             padded_size |-> <<0, 0>>,
             components |->
                [i \in 1..s.val[5] |->
                    [identifier |-> s.val[3 + 3 * i],
                     xy_sampling_factor |-> <<s.val[4 + 3 * i] \div 16, s.val[4 + 3 * i] % 16>>,
                     qtable_id |-> s.val[5 + 3 * i]]]])

read_start_of_frame(p) ==
    LET struct_size == LengthMinus2(Word(Start(p)))
        precision == Byte(struct_size)
        height == Word(precision)
        width == Word(height)
        component_count == Byte(width)
        components == ReadFrameComponents(component_count, 0)
    IN  FrameInfoOf(components)

\* the 64 entries of one quantization table, in zig-zag order
ReadZagged(p, precision) ==
    IF precision = 0
    THEN IF p + 64 <= Len(data)
         THEN Ok(p + 64, [i \in 1..64 |-> data[p + i]])
         ELSE Malformed(EndOfInput)
    ELSE IF precision = 1
    THEN IF p + 128 <= Len(data)
         THEN Ok(p + 128, [i \in 1..64 |-> 256 * data[p + 2 * i - 1] + data[p + 2 * i]])
         ELSE Malformed(EndOfInput)
    ELSE Malformed("Invalid precision value")

\* unzagged_table[row][col] = zagged_table[i] for (row, col) = ZIGZAG_MAP[i]
Unzag(zagged) ==
    [rc \in (0..7) \X (0..7) |->
        LET I == {i \in 1..64 : ZIGZAG_MAP[i] = rc}
        IN  IF I = {} THEN 0 ELSE zagged[MaxOf(I)]]

\* quant_tables.insert(destination_id, ..): s.val is the map so far
InsertQuantTable(s, table_info, zagged) ==
    IF zagged.st # "ok" THEN zagged
    ELSE Ok(zagged.pos,
            Extend(s.val, (table_info % 16) :>
                [precision |-> table_info \div 16,
                 destination_id |-> table_info % 16,
                 table |-> Unzag(zagged.val)]))

ReadQuantTable(s, table_info) ==
    IF table_info.st # "ok" THEN table_info
    ELSE IF table_info.val % 16 \notin {0, 1}
    THEN UnsupportedFeature("Unsupported quantization table type")
    ELSE InsertQuantTable(s, table_info.val,
                          ReadZagged(table_info.pos, table_info.val \div 16))

\* the `while reader.position() != end_of_table` loop
RECURSIVE ReadQuantLoop(_, _)
ReadQuantLoop(s, end_of_table) ==
    IF s.st # "ok" THEN s
    ELSE IF s.pos = end_of_table THEN s
    ELSE ReadQuantLoop(ReadQuantTable(s, read_next_byte(s.pos)), end_of_table)

QuantTablesOf(struct_size) ==
    IF struct_size.st # "ok" THEN struct_size
    ELSE ReadQuantLoop(Start(struct_size.pos), struct_size.pos + Last(struct_size))

read_quantization_tables(p) == QuantTablesOf(LengthMinus2(Word(Start(p))))

\* HuffmanTable::generate_codes; `code` is a u16: `code += 1` panics under
\* overflow checks and wraps otherwise, `code <<= 1` drops the high bit.
RECURSIVE GenerateCodesFrom(_, _, _, _)
GenerateCodesFrom(bitcode_counts, i, code, codes) ==
    IF i > 16 THEN Ok(0, codes)
    ELSE IF overflow_checks /\ code + bitcode_counts[i] > 65535
    THEN Panic("attempt to add with overflow")
    ELSE GenerateCodesFrom(bitcode_counts, i + 1,
            (((code + bitcode_counts[i]) % 65536) * 2) % 65536,
            codes \o [j \in 1..bitcode_counts[i] |-> (code + j - 1) % 65536])

generate_codes(bitcode_counts) == GenerateCodesFrom(bitcode_counts, 1, 0, <<>>)

\* the match on table.table_type: s.val is <<ac_tables, dc_tables>> so far
InsertHuffmanTable(s, table_info, bitcode_counts, symbols, codes) ==
    IF codes.st # "ok" THEN codes
    ELSE IF symbols.st # "ok" THEN symbols
    ELSE IF table_info \div 16 = 1
    THEN Ok(symbols.pos,
            <<Extend(s.val[1], (table_info % 16) :>
                [table_type |-> "Ac", destination_id |-> table_info % 16,
                 bitcode_counts |-> bitcode_counts, symbols |-> symbols.val,
                 codes |-> codes.val]),
              s.val[2]>>)
    ELSE Ok(symbols.pos,
            <<s.val[1],
              Extend(s.val[2], (table_info % 16) :>
                [table_type |-> "Dc", destination_id |-> table_info % 16,
                 bitcode_counts |-> bitcode_counts, symbols |-> symbols.val,
                 codes |-> codes.val])>>)

\* `n` successive read_next_byte()? calls from position p
ReadBytes(p, n) ==
    IF p + n > Len(data) THEN Malformed(EndOfInput)
    ELSE Ok(p + n, [i \in 1..n |-> data[p + i]])

ReadSymbols(s, table_info, bitcode_counts) ==
    IF bitcode_counts.st # "ok" THEN bitcode_counts
    ELSE InsertHuffmanTable(s, table_info, bitcode_counts.val,
            ReadBytes(bitcode_counts.pos, SumSeq(bitcode_counts.val)),
            generate_codes(bitcode_counts.val))

ReadHuffmanTable(s, table_info) ==
    IF table_info.st # "ok" THEN table_info
    ELSE IF table_info.val \div 16 \notin {0, 1} THEN Malformed("Invalid table type")
    ELSE ReadSymbols(s, table_info.val, ReadBytes(table_info.pos, 16))

\* the `while reader.position() != end_of_table` loop
RECURSIVE ReadHuffmanLoop(_, _)
ReadHuffmanLoop(s, end_of_table) ==
    IF s.st # "ok" THEN s
    ELSE IF s.pos = end_of_table THEN s
    ELSE ReadHuffmanLoop(ReadHuffmanTable(s, read_next_byte(s.pos)), end_of_table)

HuffmanTablesOf(struct_size) ==
    IF struct_size.st # "ok" THEN struct_size
    ELSE ReadHuffmanLoop(Ok(struct_size.pos, << <<>>, <<>> >>),
                         struct_size.pos + Last(struct_size))

read_huffman_tables(p) == HuffmanTablesOf(LengthMinus2(Word(Start(p))))

\* read_start_of_scan: the values read are
\* <<struct size, component_count, selector, tables, ... (once per component),
\*   spectral_selection_start, spectral_selection_end, successive_approximation>>
RECURSIVE ReadScanComponents(_, _)
ReadScanComponents(s, i) ==
    IF s.st # "ok" THEN s
    ELSE IF i = s.val[2] THEN s
    ELSE ReadScanComponents(Byte(Byte(s)), i + 1)

ScanInfoOf(s) ==
    IF s.st # "ok" THEN s
    ELSE Ok(s.pos,
            [components |->
                [i \in 1..s.val[2] |->
                    [selector |-> s.val[1 + 2 * i],
                     dc_table |-> s.val[2 + 2 * i] \div 16,
                     ac_table |-> s.val[2 + 2 * i] % 16]],
             spectral_selection |-> <<s.val[Len(s.val) - 2], s.val[Len(s.val) - 1]>>,
             successive_approximation |-> Last(s)])

read_start_of_scan(p) ==
    LET struct_size == LengthMinus2(Word(Start(p)))
        component_count == Byte(struct_size)
        components == ReadScanComponents(component_count, 0)
        spectral_selection_start == Byte(components)
        spectral_selection_end == Byte(spectral_selection_start)
        successive_approximation == Byte(spectral_selection_end)
    IN  ScanInfoOf(successive_approximation)

\* one coordinate of pad(): u16 arithmetic, `unpadded + block_size - remainder`
\* evaluated left to right
PadDim(unpadded, block_size) ==
    IF unpadded % block_size = 0 THEN Ok(0, unpadded)
    ELSE IF unpadded + block_size > 65535 /\ overflow_checks
    THEN Panic("attempt to add with overflow")
    ELSE Ok(0, (unpadded + block_size - (unpadded % block_size)) % 65536)

\* the largest sampling factor of the frame components, per axis
MaxSamplingFactor(hdr, axis) ==
    MaxOf({0} \cup {hdr.frame_info.components[i].xy_sampling_factor[axis] :
                        i \in 1..Len(hdr.frame_info.components)})

\* the pairing of frame and scan components, by position
PairComponents(hdr) ==
    IF Len(hdr.frame_info.components) # Len(hdr.scan_info.components)
    THEN Malformed("Different number of components specified in scan header than frame header")
    ELSE Ok(hdr.header_length,
            [hdr EXCEPT !.components =
                [i \in 1..Len(hdr.frame_info.components) |->
                    [frame |-> hdr.frame_info.components[i],
                     scan |-> hdr.scan_info.components[i]]]])

SetGeometry(hdr, max_h, max_v, pad_w, pad_h) ==
    IF pad_w.st # "ok" THEN pad_w
    ELSE IF pad_h.st # "ok" THEN pad_h
    ELSE PairComponents(
            [hdr EXCEPT
                !.mcu_info =
                    [max_xy_sampling_factor |-> <<max_h, max_v>>,
                     mcu_size |-> <<8 * max_h, 8 * max_v>>,
                     mcu_dimensions |->
                        <<hdr.frame_info.image_size[1] \div (8 * max_h),
                          hdr.frame_info.image_size[2] \div (8 * max_v)>>,
                     mcu_padded_dimensions |->
                        <<pad_w.val \div (8 * max_h), pad_h.val \div (8 * max_v)>>],
                !.frame_info.padded_size = <<pad_w.val, pad_h.val>>])

Pad(hdr, max_h, max_v) ==
    IF max_h = 0 \/ max_v = 0 THEN Panic("attempt to divide by zero")
    ELSE SetGeometry(hdr, max_h, max_v,
                     PadDim(hdr.frame_info.image_size[1], 8 * max_h),
                     PadDim(hdr.frame_info.image_size[2], 8 * max_v))

\* read_header_info, the SOS arm after read_start_of_scan: the MCU geometry
\* and the pairing of frame and scan components
McuGeometry(hdr) == Pad(hdr, MaxSamplingFactor(hdr, 1), MaxSamplingFactor(hdr, 2))

\* the arms of the match in read_header_info: r is what the parser of the
\* segment returned, the value is <<the header so far, TRUE when SOS was consumed>>
FrameArm(hdr, r) ==
    IF r.st # "ok" THEN r
    ELSE Ok(r.pos, <<[hdr EXCEPT !.frame_info = r.val], FALSE>>)

HuffmanArm(hdr, r) ==
    IF r.st # "ok" THEN r
    ELSE Ok(r.pos, <<[hdr EXCEPT !.ac_huff_tables = Extend(@, r.val[1]),
                                 !.dc_huff_tables = Extend(@, r.val[2])], FALSE>>)

QuantArm(hdr, r) ==
    IF r.st # "ok" THEN r
    ELSE Ok(r.pos, <<[hdr EXCEPT !.quant_tables = Extend(@, r.val)], FALSE>>)

ScanDone(g) == IF g.st # "ok" THEN g ELSE Ok(g.pos, <<g.val, TRUE>>)

ScanArm(hdr, r) ==
    IF r.st # "ok" THEN r
    ELSE ScanDone(McuGeometry([hdr EXCEPT !.scan_info = r.val,
                                          !.header_length = r.pos]))

SkipArm(hdr, r) ==
    IF r.st # "ok" THEN r ELSE Ok(r.pos, <<hdr, FALSE>>)

\* one iteration of the marker loop of read_header_info, the marker being read
HeaderSegment(marker, p, hdr) ==
    IF marker = EOI THEN Malformed("Unexpected EOI marker encountered.")
    ELSE IF marker = SOF0 THEN FrameArm(hdr, read_start_of_frame(p))
    ELSE IF marker = DHT THEN HuffmanArm(hdr, read_huffman_tables(p))
    ELSE IF marker = DQT THEN QuantArm(hdr, read_quantization_tables(p))
    ELSE IF marker = SOS THEN ScanArm(hdr, read_start_of_scan(p))
    ELSE SkipArm(hdr, skip_marker_with_length(p))

-----------------------------------------------------------------------------
(* bitstream.rs: Bitstream over the buffer `buf`; a cursor is               *)
(* [byte_cursor, bit_cursor].  Ok carries the new cursor as pos.            *)

NewBitstream == [byte_cursor |-> 0, bit_cursor |-> 0]

\* a read_bits loop that takes bit 0 of each byte first
RECURSIVE ReadBitsLoop_LsbFirst(_, _, _, _)
ReadBitsLoop_LsbFirst(buf, bs, bits, value) ==
    IF bits = 0 THEN Ok(bs, value) ELSE
    IF bs.byte_cursor >= Len(buf) THEN Panic("index out of bounds") ELSE
    IF bs.bit_cursor + 1 = 8
    THEN ReadBitsLoop_LsbFirst(buf, [byte_cursor |-> bs.byte_cursor + 1, bit_cursor |-> 0],
                               bits - 1,
                               value * 2 + ((buf[bs.byte_cursor + 1] \div 128) % 2))
    ELSE ReadBitsLoop_LsbFirst(buf, [bs EXCEPT !.bit_cursor = @ + 1], bits - 1,
                               value * 2
                                 + ((buf[bs.byte_cursor + 1] \div (2 ^ bs.bit_cursor)) % 2))

\* the `for _ in 0..bits` loop of read_bits: `self.data[self.byte_cursor]`
\* panics when the cursor stands at the end of the buffer
RECURSIVE ReadBitsLoop(_, _, _, _)
ReadBitsLoop(buf, bs, bits, value) ==
    IF bits = 0 THEN Ok(bs, value) ELSE
    IF bs.byte_cursor >= Len(buf) THEN Panic("index out of bounds") ELSE
    LET current_byte_ == buf[bs.byte_cursor + 1]
        current_bit == (current_byte_ \div (2 ^ (7 - bs.bit_cursor))) % 2
        value_ == value * 2 + current_bit
    IN
    IF bs.bit_cursor + 1 = 8
    THEN IF bs.byte_cursor + 1 > Len(buf)
         THEN InternalError("Read past end of bit buffer")
         ELSE ReadBitsLoop(buf, [byte_cursor |-> bs.byte_cursor + 1, bit_cursor |-> 0],
                           bits - 1, value_)
    ELSE ReadBitsLoop(buf, [bs EXCEPT !.bit_cursor = @ + 1], bits - 1, value_)

read_bits(buf, bs, bits) ==
    IF bits > 64 THEN InternalError("Can't read more than 64 bits at a time")
    ELSE IF bs.byte_cursor >= Len(buf) THEN InternalError("Read past end of bit buffer")
    ELSE ReadBitsLoop(buf, bs, bits, 0)

-----------------------------------------------------------------------------
(* jpeg_core.rs: integer helpers of decode_block (i16 and u8 arithmetic)   *)

\* `x as i16` of an unsigned value: the low 16 bits, two's complement
AsI16(v) == LET m == v % 65536 IN IF m >= 32768 THEN m - 65536 ELSE m

\* an i16 result: panics under overflow checks, wraps otherwise
WrapI16(v, what) ==
    IF v >= -32768 /\ v <= 32767 THEN Ok(0, v)
    ELSE IF overflow_checks THEN Panic(what)
    ELSE Ok(0, AsI16(v))

\* `1 << n` in i16: a shift amount of 16 or more panics under overflow
\* checks and is masked to its low 4 bits otherwise
Shl1(n) ==
    IF n >= 16 /\ overflow_checks THEN Panic("attempt to shift left with overflow")
    ELSE Ok(0, AsI16(2 ^ (n % 16)))

\* u8 addition
AddU8(a, b) ==
    IF a + b <= 255 THEN Ok(0, a + b)
    ELSE IF overflow_checks THEN Panic("attempt to add with overflow")
    ELSE Ok(0, (a + b) % 256)

\* EXTEND: `if value < (1 << (t - 1)) { value -= (1 << t) - 1 }`, t > 0
Extend16(value, t) ==
    LET half == Shl1(t - 1) IN
    IF half.st # "ok" THEN half ELSE
    IF ~(value < half.val) THEN Ok(0, value) ELSE
    LET full == Shl1(t) IN
    IF full.st # "ok" THEN full ELSE
    LET m == WrapI16(full.val - 1, "attempt to subtract with overflow") IN
    IF m.st # "ok" THEN m ELSE
    WrapI16(value - m.val, "attempt to subtract with overflow")

-----------------------------------------------------------------------------
(* jpeg_core.rs: decode_next_value, decode_block                           *)

\* the `for i in 0u8..16` loop of decode_next_value; i is 1-based here and
\* bit is the result of `bitstream.read_bits(1)`.  Ok carries the bit cursor
\* as pos and the symbol as val.
RECURSIVE DecodeNextValueLoop(_, _, _, _, _, _)
RECURSIVE MatchCode(_, _, _, _, _, _)
MatchCode(buf, table, i, code, code_cursor, bit) ==
    IF bit.st # "ok" THEN bit
    ELSE LET hits == {j \in (code_cursor + 1)..(code_cursor + table.bitcode_counts[i]) :
                        table.codes[j] = code * 2 + bit.val}
         IN  IF hits # {}
             THEN Ok(bit.pos, table.symbols[CHOOSE j \in hits : \A h \in hits : j <= h])
             ELSE DecodeNextValueLoop(buf, bit.pos, table, i + 1, code * 2 + bit.val,
                                      code_cursor + table.bitcode_counts[i])

DecodeNextValueLoop(buf, bs, table, i, code, code_cursor) ==
    IF i > 16
    THEN UnsupportedFeature("JPEG has code longer than the 16 bit maximum for baseline JPEGs.")
    ELSE MatchCode(buf, table, i, code, code_cursor, read_bits(buf, bs, 1))

decode_next_value(buf, bs, table) == DecodeNextValueLoop(buf, bs, table, 1, 0, 0)

\* The working values of decode_block while it decodes one data unit: the
\* predictors, the last Huffman symbol, the last value received, k, whether
\* the AC loop has hit `break`, and dct_coefficients (1-based: dct[k + 1] is
\* dct_coefficients[k]).  A decode state is Ok(bit cursor, working values).
DataUnit(preds) ==
    [preds |-> preds, sym |-> 0, raw |-> 0, k |-> 0, brk |-> FALSE,
     dct |-> [i \in 1..64 |-> 0]]

\* a step that assigns field f from a computation
Set(d, f, r) ==
    IF r.st # "ok" THEN r ELSE Ok(d.pos, [d.val EXCEPT ![f] = r.val])

\* a step that assigns field f from a read of the bitstream
Take(d, f, r) ==
    IF r.st # "ok" THEN r ELSE Ok(r.pos, [d.val EXCEPT ![f] = r.val])

\* `vec![0i16; 64]`, `let mut k = 0`
NewDataUnit(d) == IF d.st # "ok" THEN d ELSE Ok(d.pos, DataUnit(d.val.preds))

\* DECODE: `self.decode_next_value(bitstream, table)?`
Decode(buf, d, table) ==
    IF d.st # "ok" THEN d ELSE Take(d, "sym", decode_next_value(buf, d.pos, table))

\* RECEIVE: `bitstream.read_bits(dc_code as usize)?`
ReceiveDc(buf, d) ==
    IF d.st # "ok" THEN d ELSE Take(d, "raw", read_bits(buf, d.pos, d.val.sym))

\* `if dc_code != 0 && diff < (1 << (dc_code - 1)) { diff -= (1 << dc_code) - 1 }`
ExtendDc(d) ==
    IF d.st # "ok" THEN d
    ELSE Set(d, "raw", IF d.val.sym # 0
                       THEN Extend16(AsI16(d.val.raw), d.val.sym)
                       ELSE Ok(0, AsI16(d.val.raw)))

SetDc(d, selector, dc_coefficient) ==
    IF dc_coefficient.st # "ok" THEN dc_coefficient
    ELSE Ok(d.pos, [d.val EXCEPT !.preds[selector + 1] = dc_coefficient.val,
                                 !.dct[1] = dc_coefficient.val])

\* `self.dc_predictions[selector] + diff`, stored as predictor and as
\* dct_coefficients[0]
Predict(d, selector) ==
    IF d.st # "ok" THEN d
    ELSE IF selector >= Len(d.val.preds) THEN Panic("index out of bounds")
    ELSE SetDc(d, selector, WrapI16(d.val.preds[selector + 1] + d.val.raw,
                                    "attempt to add with overflow"))

\* `k += n` on a u8
AddK(d, n) == IF d.st # "ok" THEN d ELSE Set(d, "k", AddU8(d.val.k, n))

\* `if k > 64 { return Err(..) }`
CheckK(d) ==
    IF d.st # "ok" THEN d
    ELSE IF d.val.k > 64 THEN Malformed("Run length exceeds max K of 64")
    ELSE d

\* `k += run_length` and the check of k
RunLength(d) == IF d.st # "ok" THEN d ELSE CheckK(AddK(d, d.val.sym \div 16))

\* `bitstream.read_bits(code_length as usize)?`
ReceiveAc(buf, d) ==
    IF d.st # "ok" THEN d ELSE Take(d, "raw", read_bits(buf, d.pos, d.val.sym % 16))

\* EXTEND of an AC value; `code_length - 1` is a u8 subtraction
ExtendAc(d) ==
    IF d.st # "ok" THEN d
    ELSE IF d.val.sym % 16 = 0 /\ overflow_checks
    THEN Panic("attempt to subtract with overflow")
    ELSE Set(d, "raw", Extend16(AsI16(d.val.raw),
                                IF d.val.sym % 16 = 0 THEN 256 ELSE d.val.sym % 16))

\* `dct_coefficients[k as usize] = value`
StoreAc(d) ==
    IF d.st # "ok" THEN d
    ELSE IF d.val.k >= 64 THEN Panic("index out of bounds")
    ELSE Ok(d.pos, [d.val EXCEPT !.dct[d.val.k + 1] = d.val.raw])

\* `match huffman_val`
AcCoefficient(buf, d) ==
    IF d.st # "ok" THEN d
    ELSE IF d.val.sym = 0 THEN Ok(d.pos, [d.val EXCEPT !.brk = TRUE])
    ELSE IF d.val.sym = 240 THEN AddK(d, 15)
    ELSE StoreAc(ExtendAc(ReceiveAc(buf, RunLength(d))))

\* the AC loop `while k != 63`
RECURSIVE AcLoop(_, _, _)
AcLoop(buf, d, ac_table) ==
    IF d.st # "ok" THEN d
    ELSE IF d.val.brk \/ d.val.k = 63 THEN d
    ELSE AcLoop(buf, AcCoefficient(buf, Decode(buf, AddK(d, 1), ac_table)), ac_table)

\* `dct_coefficients[i] * qtable[row][col] as i16`
Dequantize(d, qtable) ==
    IF d.st # "ok" THEN d
    ELSE IF overflow_checks
            /\ \E i \in 1..64 :
                  \/ d.val.dct[i] * AsI16(qtable[ZIGZAG_MAP[i]]) < -32768
                  \/ d.val.dct[i] * AsI16(qtable[ZIGZAG_MAP[i]]) > 32767
    THEN Panic("attempt to multiply with overflow")
    ELSE d

\* one data unit of decode_block: DC, AC, dequantization
DecodeDataUnit(buf, d, component, dc_table, ac_table, qtable) ==
    LET dc_code == Decode(buf, NewDataUnit(d), dc_table)
        diff == ExtendDc(ReceiveDc(buf, dc_code))
        dc_coefficient == Predict(diff, component.scan.selector)
        ac == AcLoop(buf, dc_coefficient, ac_table)
    IN  Dequantize(ac, qtable)

\* the data units of one component: the loops over mcu_row and mcu_col
RECURSIVE DecodeDataUnits(_, _, _, _, _, _, _)
DecodeDataUnits(buf, d, n, component, dc_table, ac_table, qtable) ==
    IF d.st # "ok" THEN d
    ELSE IF n = 0 THEN d
    ELSE DecodeDataUnits(buf,
            DecodeDataUnit(buf, d, component, dc_table, ac_table, qtable),
            n - 1, component, dc_table, ac_table, qtable)

\* a stretch that divides the row index by horiz_ratio and the column index
\* by vert_ratio
stretched_block_SwapsRatios(max_xy_sampling_factor, xy_sampling_factor, block) ==
    IF max_xy_sampling_factor[1] \div xy_sampling_factor[1] > 1
          \/ max_xy_sampling_factor[2] \div xy_sampling_factor[2] > 1
    THEN [y \in 1..(8 * max_xy_sampling_factor[2]) |->
            [x \in 1..(8 * max_xy_sampling_factor[1]) |->
                block[((y - 1) \div (max_xy_sampling_factor[1] \div xy_sampling_factor[1])) + 1]
                     [((x - 1) \div (max_xy_sampling_factor[2] \div xy_sampling_factor[2])) + 1]]]
    ELSE block

\* `if horiz_ratio > 1 || vert_ratio > 1 { .. *component_block = stretched_block }`
\* for sampling factors that are not 0; rows and columns are 1-based here
stretched_block(max_xy_sampling_factor, xy_sampling_factor, block) ==
    IF max_xy_sampling_factor[1] \div xy_sampling_factor[1] > 1
          \/ max_xy_sampling_factor[2] \div xy_sampling_factor[2] > 1
    THEN [y \in 1..(8 * max_xy_sampling_factor[2]) |->
            [x \in 1..(8 * max_xy_sampling_factor[1]) |->
                block[((y - 1) \div (max_xy_sampling_factor[2] \div xy_sampling_factor[2])) + 1]
                     [((x - 1) \div (max_xy_sampling_factor[1] \div xy_sampling_factor[1])) + 1]]]
    ELSE block

\* horiz_ratio, vert_ratio: the divisions (the samples are not followed here)
Stretch(component, d) ==
    IF d.st # "ok" THEN d
    ELSE IF component.frame.xy_sampling_factor[1] = 0
            \/ component.frame.xy_sampling_factor[2] = 0
    THEN Panic("attempt to divide by zero")
    ELSE d

\* the `for component in &header.components` loop, from component ci on
RECURSIVE DecodeComponents(_, _, _, _)
DecodeComponents(buf, hdr, ci, d) ==
    IF d.st # "ok" THEN d
    ELSE IF ci > Len(hdr.components) THEN d
    ELSE IF \/ hdr.components[ci].scan.dc_table \notin DOMAIN hdr.dc_huff_tables
            \/ hdr.components[ci].scan.ac_table \notin DOMAIN hdr.ac_huff_tables
            \/ hdr.components[ci].frame.qtable_id \notin DOMAIN hdr.quant_tables
    THEN Panic("called Option::unwrap on a None value")
    \* Macroblock::get_component
    ELSE IF hdr.components[ci].scan.selector \notin {1, 2, 3}
    THEN Panic("Invalid component selector")
    ELSE DecodeComponents(buf, hdr, ci + 1,
            Stretch(hdr.components[ci],
                DecodeDataUnits(buf, d,
                    hdr.components[ci].frame.xy_sampling_factor[1]
                        * hdr.components[ci].frame.xy_sampling_factor[2],
                    hdr.components[ci],
                    hdr.dc_huff_tables[hdr.components[ci].scan.dc_table],
                    hdr.ac_huff_tables[hdr.components[ci].scan.ac_table],
                    hdr.quant_tables[hdr.components[ci].frame.qtable_id].table)))

\* Ok carries the bit cursor as pos and the predictor vector as val
MacroblockOf(d) == IF d.st # "ok" THEN d ELSE Ok(d.pos, d.val.preds)

decode_block(buf, hdr, bs, preds) ==
    MacroblockOf(DecodeComponents(buf, hdr, 1, Ok(bs, DataUnit(preds))))

\* blocks_to_bitmap: the Bitmap, or the panic of the first pixel whose
\* macroblock or whose data index is out of range (both tests only grow
\* with x and y, so some pixel fails exactly when the last one does)
blocks_to_bitmap(hdr) ==
    LET channels == Len(hdr.components) % 256
        size == hdr.frame_info.image_size
        len == size[1] * size[2] * channels
        mcu == hdr.mcu_info.max_xy_sampling_factor
        grid == hdr.mcu_info.mcu_padded_dimensions
        x == size[1] - 1
        y == size[2] - 1
    IN
    IF size[1] > 0 /\ size[2] > 0
       /\ (\/ y \div (8 * mcu[2]) >= grid[2]
           \/ x \div (8 * mcu[1]) >= grid[1]
           \/ (y * size[1] + x) * channels + 2 >= len)
    THEN Panic("index out of bounds")
    ELSE Ok(0, [channels |-> channels, size |-> size, len |-> len])

-----------------------------------------------------------------------------
(* jpeg_core.rs: one iteration of the loop of read_huffman_data.           *)
(* st is "ok" (the loop goes on), "done" (EOI: the buffer is returned) or  *)
(* a failure; val is <<current_byte, huffman_data>>.                       *)

\* a read_huffman_data that takes the end of the input for the end of the scan
HuffmanDataStep_EndIsEOI(p, cur, out) ==
    LET last_byte == cur
        next == read_next_byte(p)
    IN
    IF next.st # "ok" THEN [Ok(p, <<cur, out>>) EXCEPT !.st = "done"] ELSE
    IF last_byte = 255 THEN
        IF next.val = 0 THEN
            LET after == read_next_byte(next.pos) IN
            IF after.st # "ok" THEN after
            ELSE Ok(after.pos, <<after.val, Append(out, last_byte)>>)
        ELSE
            LET marker == to_marker(65280 + next.val) IN
            IF marker.st # "ok" THEN marker
            ELSE IF marker.val = EOI
            THEN [Ok(next.pos, <<next.val, out>>) EXCEPT !.st = "done"]
            ELSE Ok(next.pos, <<next.val, out>>)
    ELSE Ok(next.pos, <<next.val, Append(out, last_byte)>>)

\* a read_huffman_data that does not read past the stuffed 0x00, which then
\* is taken for a byte of the data
HuffmanDataStep_KeepsStuffing(p, cur, out) ==
    LET last_byte == cur
        next == read_next_byte(p)
    IN
    IF next.st # "ok" THEN next ELSE
    IF last_byte = 255 THEN
        IF next.val = 0 THEN Ok(next.pos, <<next.val, Append(out, last_byte)>>)
        ELSE
            LET marker == to_marker(65280 + next.val) IN
            IF marker.st # "ok" THEN marker
            ELSE IF marker.val = EOI
            THEN [Ok(next.pos, <<next.val, out>>) EXCEPT !.st = "done"]
            ELSE Ok(next.pos, <<next.val, out>>)
    ELSE Ok(next.pos, <<next.val, Append(out, last_byte)>>)

\* read_huffman_data: one iteration of its loop
HuffmanDataStep(p, cur, out) ==
    LET last_byte == cur
        next == read_next_byte(p)
    IN
    IF next.st # "ok" THEN next ELSE
    IF last_byte = 255 THEN
        IF next.val = 0 THEN
            LET after == read_next_byte(next.pos) IN
            IF after.st # "ok" THEN after
            ELSE Ok(after.pos, <<after.val, Append(out, last_byte)>>)
        ELSE
            LET marker == to_marker(65280 + next.val) IN
            IF marker.st # "ok" THEN marker
            ELSE IF marker.val = EOI
            THEN [Ok(next.pos, <<next.val, out>>) EXCEPT !.st = "done"]
            ELSE Ok(next.pos, <<next.val, out>>)
    ELSE Ok(next.pos, <<next.val, Append(out, last_byte)>>)

-----------------------------------------------------------------------------
(* The inputs.  A stream is built from segments; the families below vary   *)
(* one part of a small well-formed baseline stream at a time.              *)

W16(n) == <<n \div 256, n % 256>>

RECURSIVE Flatten(_)
Flatten(ss) == IF ss = <<>> THEN <<>> ELSE Head(ss) \o Flatten(Tail(ss))

Zeros(n) == [i \in 1..n |-> 0]

Segment(marker, payload) == W16(marker) \o W16(Len(payload) + 2) \o payload

\* a frame header; comps is a sequence of <<identifier, HV, qtable id>>
FrameSegment(marker, size, comps) ==
    Segment(marker, <<8>> \o W16(size[2]) \o W16(size[1]) \o <<Len(comps)>> \o Flatten(comps))

\* one 8-bit quantization table, all ones
QuantSegment(id) == Segment(DQT, <<id>> \o [i \in 1..64 |-> 1])

\* DC table 0: codes 0, 10, 110 for the categories 0, 1, 2
\* AC table 0: codes 0, 10, 110, 111 for EOB, 0/1, ZRL, 1/1
HuffmanSegment ==
    Segment(DHT, <<0, 1, 1, 1>> \o Zeros(13) \o <<0, 1, 2>>
                 \o <<16, 1, 1, 2>> \o Zeros(13) \o <<0, 1, 240, 17>>)

\* a scan header; comps is a sequence of <<selector, DC/AC table ids>>
ScanSegment(comps) ==
    Segment(SOS, <<Len(comps)>> \o Flatten(comps) \o <<0, 63, 0>>)

\* the sampling of the three components, as the SOF0 component entries
Frame444 == << <<1, 17, 0>>, <<2, 17, 0>>, <<3, 17, 0>> >>
Frame420 == << <<1, 34, 0>>, <<2, 17, 0>>, <<3, 17, 0>> >>
Frame422 == << <<1, 33, 0>>, <<2, 17, 0>>, <<3, 17, 0>> >>
Scan123 == << <<1, 0>>, <<2, 0>>, <<3, 0>> >>

\* a stream up to and including the scan header
Stream(fill, sof, size, frame, tables, scan) ==
    W16(SOI) \o fill \o FrameSegment(sof, size, frame) \o tables \o ScanSegment(scan)

Tables == QuantSegment(0) \o HuffmanSegment

BaseHeader == Stream(<<>>, SOF0, <<8, 8>>, Frame444, Tables, Scan123)

CeilDiv(a, b) == (a + b - 1) \div b

\* entropy-coded data of an image whose every data unit is DC category 0
\* and an immediate EOB: two zero bits per data unit
ZeroScan(size, frame) ==
    LET max_h == MaxOf({c[2] \div 16 : c \in {frame[i] : i \in 1..Len(frame)}})
        max_v == MaxOf({c[2] % 16 : c \in {frame[i] : i \in 1..Len(frame)}})
        mcus == CeilDiv(size[1], 8 * max_h) * CeilDiv(size[2], 8 * max_v)
        units == SumSeq([i \in 1..Len(frame) |-> (frame[i][2] \div 16) * (frame[i][2] % 16)])
    IN  Zeros(CeilDiv(2 * units * mcus, 8)) \o W16(EOI)

\* well-formed baseline 3-component streams
Sizes == {<<8, 8>>, <<9, 7>>, <<16, 16>>, <<17, 1>>, <<1, 1>>}
Samplings == {Frame444, Frame420, Frame422}
WideSize == <<65535, 1>>

WellFormed(size, frame) ==
    Stream(<<>>, SOF0, size, frame, Tables, Scan123) \o ZeroScan(size, frame)

WellFormedInputs ==
    {WellFormed(size, frame) : size \in Sizes, frame \in Samplings}
        \cup {WellFormed(WideSize, Frame444)}

\* marker fill: extra 0xFF bytes before the frame header
MaxFill == 2

FillInputs ==
    {Stream([i \in 1..k |-> 255], SOF0, <<8, 8>>, Frame444, Tables, Scan123)
        \o ZeroScan(<<8, 8>>, Frame444) : k \in 1..MaxFill}

\* frame markers that are not in the marker enum: SOF1, SOF2, 0xFF01
OtherFrameMarkers == {\HFFC1, \HFFC2, \HFF01}

OtherFrameInputs ==
    {Stream(<<>>, m, <<8, 8>>, Frame444, Tables, Scan123)
        \o ZeroScan(<<8, 8>>, Frame444) : m \in OtherFrameMarkers}

\* segments that the header loop skips, one of them with a length below 2
SkippedInputs ==
    {Stream(s, SOF0, <<8, 8>>, Frame444, Tables, Scan123)
        \o ZeroScan(<<8, 8>>, Frame444) :
            s \in {Segment(COM, <<65>>), Segment(APP0, <<74, 70>>) \o Segment(RST0, <<>>),
                   W16(APP0) \o <<0, 1>>}}

\* any bytes after the scan header, up to MaxEntropy of them
EntropyBytes == {0, 165, 194, 208, 217, 255}
MaxEntropy == 3

SeqsUpTo(S, n) == UNION {[1..k -> S] : k \in 0..n}

EntropyInputs == {BaseHeader \o e : e \in SeqsUpTo(EntropyBytes, MaxEntropy)}

\* byte stuffing: every 0xFF of the payload becomes 0xFF 0x00
RECURSIVE Stuff(_)
Stuff(d) ==
    IF d = <<>> THEN <<>>
    ELSE (IF Head(d) = 255 THEN <<255, 0>> ELSE <<Head(d)>>) \o Stuff(Tail(d))

PayloadBytes == {0, 165, 217, 255}
MaxPayload == 3
Payloads == SeqsUpTo(PayloadBytes, MaxPayload)
Tails == {<<>>, <<255, 217>>, <<165>>}

Stuffed(d, tail) == BaseHeader \o Stuff(d) \o W16(EOI) \o tail

StuffedInputs == {Stuffed(d, tail) : d \in Payloads, tail \in Tails}

\* the bytes after the scan header of the stuffed inputs, each with its payload
StuffedScans == {<<Stuff(d) \o W16(EOI) \o tail, d>> : d \in Payloads, tail \in Tails}

\* streams whose scan refers to tables that no DQT or DHT segment defines
MissingTableInputs ==
    {Stream(<<>>, SOF0, <<8, 8>>, Frame444, t, Scan123) \o ZeroScan(<<8, 8>>, Frame444) :
        t \in {<<>>, QuantSegment(0), HuffmanSegment}}
    \cup
    {Stream(<<>>, SOF0, <<8, 8>>, f, Tables, sc) \o ZeroScan(<<8, 8>>, Frame444) :
        f \in {Frame444, << <<1, 17, 1>>, <<2, 17, 0>>, <<3, 17, 0>> >>},
        sc \in {<< <<1, 16>>, <<2, 0>>, <<3, 0>> >>, << <<1, 0>>, <<2, 1>>, <<3, 0>> >>,
                Scan123}}

\* frames that do not have exactly the components 1, 2, 3
OtherFrames ==
    { << << <<1, 17, 0>> >>, << <<1, 0>> >> >>,
      << << <<1, 17, 0>>, <<2, 17, 0>> >>, << <<1, 0>>, <<2, 0>> >> >>,
      << << <<1, 17, 0>>, <<2, 17, 0>>, <<3, 17, 0>>, <<4, 17, 0>> >>,
         << <<1, 0>>, <<2, 0>>, <<3, 0>>, <<4, 0>> >> >>,
      << << <<1, 17, 0>>, <<2, 17, 0>>, <<3, 17, 0>>, <<4, 17, 0>> >>,
         << <<1, 0>>, <<2, 0>>, <<3, 0>>, <<1, 0>> >> >>,
      << << <<4, 17, 0>>, <<5, 17, 0>>, <<6, 17, 0>> >>,
         << <<4, 0>>, <<5, 0>>, <<6, 0>> >> >>,
      << << <<4, 17, 0>>, <<5, 17, 0>>, <<6, 17, 0>> >>, Scan123 >>,
      << << <<1, 17, 0>>, <<2, 17, 0>>, <<3, 17, 0>> >>, << <<1, 0>>, <<2, 0>> >> >>,
      << << <<1, 0, 0>>, <<2, 0, 0>>, <<3, 0, 0>> >>, Scan123 >>,
      << << <<1, 17, 0>>, <<2, 0, 0>>, <<3, 17, 0>> >>, Scan123 >> }

OtherFrameSizes == {<<8, 8>>, <<0, 8>>}

ComponentInputs ==
    {Stream(<<>>, SOF0, size, fs[1], Tables, fs[2]) \o <<0, 0>> \o W16(EOI) :
        fs \in OtherFrames, size \in OtherFrameSizes}

\* every proper prefix of a well-formed stream
TruncatedInputs ==
    LET whole == WellFormed(<<8, 8>>, Frame444)
    IN  {SubSeq(whole, 1, n) : n \in 0..(Len(whole) - 1)}

\* Scans coded from chosen symbols.  The tables give the i-th symbol of a
\* table the code of i-1 ones and a zero (one code of each length 1, 2, ..).
DcSymbols == <<0, 1, 2, 11>>

\* EOB, 0/1, ZRL, 1/1, 14/1, 15/1, 13/1, 2/1
AcSymbols == <<0, 1, 240, 17, 225, 241, 209, 33>>

UnaryTable(table_info, symbols) ==
    <<table_info>> \o [l \in 1..16 |-> IF l <= Len(symbols) THEN 1 ELSE 0] \o symbols

CodedTables ==
    QuantSegment(0)
        \o Segment(DHT, UnaryTable(0, DcSymbols) \o UnaryTable(16, AcSymbols))

\* the code of a symbol, as bits
CodeBits(symbols, sym) ==
    [j \in 1..(CHOOSE i \in DOMAIN symbols : symbols[i] = sym) |->
        IF symbols[j] = sym THEN 0 ELSE 1]

\* the category of a value: the number of bits of its magnitude
Category(v) ==
    CHOOSE t \in 0..15 :
        /\ (IF v < 0 THEN -v ELSE v) < 2 ^ t
        /\ t > 0 => (IF v < 0 THEN -v ELSE v) >= 2 ^ (t - 1)

\* the bits that follow the code of the category t: v, or v + 2^t - 1 if v < 0
ValueBits(v, t) ==
    [i \in 1..t |-> ((IF v >= 0 THEN v ELSE v + 2 ^ t - 1) \div (2 ^ (t - i))) % 2]

DcBits(diff) == CodeBits(DcSymbols, Category(diff)) \o ValueBits(diff, Category(diff))

\* an AC symbol; the value of a symbol of size 1 is 1
AcBits(sym) == CodeBits(AcSymbols, sym) \o (IF sym \in {0, 240} THEN <<>> ELSE <<1>>)

\* the bits in bytes, the last byte filled with ones
PackBits(bits) ==
    [j \in 1..((Len(bits) + 7) \div 8) |->
        SumSeq([i \in 1..8 |->
            IF 8 * (j - 1) + i <= Len(bits)
            THEN bits[8 * (j - 1) + i] * 2 ^ (8 - i)
            ELSE 2 ^ (8 - i)])]

\* a 4:4:4 image of n MCUs in one row, whose entropy-coded segment is bits
CodedStream(n, bits) ==
    Stream(<<>>, SOF0, <<8 * n, 8>>, Frame444, CodedTables, Scan123)
        \o Stuff(PackBits(bits)) \o W16(EOI)

\* an MCU of three data units with the DC differences d and no AC coefficient
McuBits(d) ==
    DcBits(d[1]) \o AcBits(0) \o DcBits(d[2]) \o AcBits(0) \o DcBits(d[3]) \o AcBits(0)

\* the DC differences of the three components in one MCU
McuDiffs == {<<y, c[1], c[2]>> : y \in {-2, 0, 1, 2047}, c \in {<<0, 0>>, <<1, -1>>}}

\* the number of MCUs of the long scan
LongScan == 17

\* scans of two MCUs, and a long scan of the largest baseline difference
DiffSequences ==
    {<<a, b>> : a \in McuDiffs, b \in McuDiffs}
        \cup {[i \in 1..LongScan |-> <<2047, 0, 0>>]}

PredictorScans ==
    {[data |-> CodedStream(Len(diffs), Flatten([i \in 1..Len(diffs) |-> McuBits(diffs[i])])),
      diffs |-> diffs] : diffs \in DiffSequences}

PredictorInputs == {c.data : c \in PredictorScans}

\* AC symbols of the first data unit and the k at which the last one lands
RunSequences ==
    {[symbols |-> <<1, 0>>, k |-> 1],
     [symbols |-> <<240, 240, 240, 225>>, k |-> 63],
     [symbols |-> <<240, 240, 240, 209, 1>>, k |-> 63],
     [symbols |-> <<240, 240, 240, 241>>, k |-> 64],
     [symbols |-> <<240, 240, 240, 209, 17>>, k |-> 64],
     [symbols |-> <<240, 240, 240, 209, 33>>, k |-> 65]}

\* one MCU: the first data unit has the AC symbols, the others none
RunScans ==
    {[data |-> CodedStream(1, DcBits(0) \o Flatten([i \in 1..Len(r.symbols) |->
                                                       AcBits(r.symbols[i])])
                              \o DcBits(0) \o AcBits(0) \o DcBits(0) \o AcBits(0)),
      k |-> r.k] : r \in RunSequences}

RunInputs == {c.data : c \in RunScans}

\* the numbers of ZRL symbols after which k is 64, 240 and beyond 255
ZrlCounts == {4, 15, 16, 17}

\* one MCU whose first data unit is a run of ZRL symbols, followed by EOB and
\* the other two data units or by nothing but the fill of the last byte
ZrlInputs ==
    {CodedStream(1, DcBits(0) \o Flatten([i \in 1..n |-> AcBits(240)]) \o rest) :
        n \in ZrlCounts,
        rest \in {<<>>, AcBits(0) \o DcBits(0) \o AcBits(0) \o DcBits(0) \o AcBits(0)}}

IsInput(d) ==
    \/ d \in ZrlInputs
    \/ d \in PredictorInputs
    \/ d \in RunInputs
    \/ d \in WellFormedInputs
    \/ d \in FillInputs
    \/ d \in OtherFrameInputs
    \/ d \in SkippedInputs
    \/ d \in EntropyInputs
    \/ d \in StuffedInputs
    \/ d \in MissingTableInputs
    \/ d \in ComponentInputs
    \/ d \in TruncatedInputs

-----------------------------------------------------------------------------
(* The decode of jpeg/mod.rs as a state machine                            *)

Running == [status |-> "running", kind |-> "", msg |-> ""]

NoBitmap == [channels |-> 0, size |-> <<0, 0>>, len |-> 0]

Init ==
    /\ IsInput(data)
    /\ overflow_checks \in BOOLEAN
    /\ pos = 0
    /\ pc = "Init"
    /\ word = 0
    /\ header = DefaultHeader
    /\ current_byte = 0
    /\ huffman_data = <<>>
    /\ bitstream = NewBitstream
    /\ dc_predictions = <<>>
    /\ mcus_decoded = 0
    /\ result = Running
    /\ bitmap = NoBitmap
    /\ component_block = <<>>

\* an Err(..) of any stage is returned by decode through `?`; a panic unwinds
Fail(r) ==
    /\ result' = [status |-> IF r.st = "panic" THEN "panic" ELSE "error",
                  kind |-> r.kind, msg |-> r.msg]
    /\ UNCHANGED <<data, overflow_checks, pos, pc, word, header, current_byte,
                   huffman_data, bitstream, dc_predictions, mcus_decoded, bitmap,
                   component_block>>

\* read_header_info with the marker m read and the cursor at p: the SOI
\* test before the loop, or one iteration of the marker loop
OnMarker(m, p) ==
    IF pc \in {"Init", "InitFill"}
    THEN IF m # SOI
         THEN Fail(Malformed("This JPEG image does not have an SOI marker"))
         ELSE /\ pc' = "Headers"
              /\ pos' = p
              /\ UNCHANGED <<data, overflow_checks, word, header, current_byte,
                             huffman_data, bitstream, dc_predictions, mcus_decoded,
                             result, bitmap,
                   component_block>>
    ELSE \E seg \in {HeaderSegment(m, p, header)} :
            IF seg.st # "ok" THEN Fail(seg)
            ELSE /\ pc' = IF seg.val[2] THEN "ScanFirst" ELSE "Headers"
                 /\ pos' = seg.pos
                 /\ header' = seg.val[1]
                 /\ UNCHANGED <<data, overflow_checks, word, current_byte, huffman_data,
                                bitstream, dc_predictions, mcus_decoded, result, bitmap,
                   component_block>>

\* read_next_marker after read_next_word returned w: the match on to_marker
MatchMarker(w, m) ==
    IF m.st = "ok" THEN OnMarker(m.val, w.pos)
    ELSE IF w.val # 65535 THEN Fail(Malformed("Invalid JPEG file"))
    ELSE /\ pc' = IF pc = "Init" THEN "InitFill" ELSE "HeadersFill"
         /\ pos' = w.pos
         /\ word' = w.val
         /\ UNCHANGED <<data, overflow_checks, header, current_byte, huffman_data,
                        bitstream, dc_predictions, mcus_decoded, result, bitmap,
                   component_block>>

\* read_next_marker up to its loop
ReadMarker ==
    \E w \in {read_next_word(pos)} :
        IF w.st # "ok" THEN Fail(w) ELSE MatchMarker(w, to_marker(w.val))

\* decode, parse, read_header_info: the first marker
ReadSOI ==
    /\ result.status = "running"
    /\ pc = "Init"
    /\ ReadMarker

\* read_header_info: one iteration of the marker loop
ReadSegment ==
    /\ result.status = "running"
    /\ pc = "Headers"
    /\ ReadMarker

\* the `if word == 0xFF` block in the loop of read_next_marker
FillMarker(next, m) == IF m.st = "ok" THEN OnMarker(m.val, next.pos) ELSE Fail(m)

\* read_next_marker: one iteration of its loop, entered on the word 0xFFFF
MarkerFill ==
    /\ result.status = "running"
    /\ pc \in {"InitFill", "HeadersFill"}
    /\ \E next \in {read_next_byte(pos)} :
          IF next.st # "ok" THEN Fail(next)
          ELSE IF next.val = 0 THEN Fail(Malformed("Invalid JPEG file"))
          ELSE IF word = 255 THEN FillMarker(next, to_marker(65280 + next.val))
          ELSE /\ pos' = next.pos
               /\ UNCHANGED <<data, overflow_checks, pc, word, header, current_byte,
                              huffman_data, bitstream, dc_predictions, mcus_decoded,
                              result, bitmap,
                   component_block>>

\* read_scan, read_huffman_data: the byte read before the loop
ReadFirstByte ==
    /\ result.status = "running"
    /\ pc = "ScanFirst"
    /\ \E b \in {read_next_byte(pos)} :
          IF b.st # "ok" THEN Fail(b)
          ELSE /\ pc' = "ScanLoop"
               /\ pos' = b.pos
               /\ current_byte' = b.val
               /\ UNCHANGED <<data, overflow_checks, word, header, huffman_data,
                              bitstream, dc_predictions, mcus_decoded, result, bitmap,
                   component_block>>

\* read_huffman_data: one iteration of the loop; on EOI read_scan goes on to
\* create the bitstream, the predictors and the block grid
ReadHuffmanData ==
    /\ result.status = "running"
    /\ pc = "ScanLoop"
    /\ \E s \in {HuffmanDataStep(pos, current_byte, huffman_data)} :
          IF s.st \notin {"ok", "done"} THEN Fail(s)
          ELSE /\ pos' = s.pos
               /\ current_byte' = s.val[1]
               /\ huffman_data' = s.val[2]
               /\ pc' = IF s.st = "done" THEN "Blocks" ELSE "ScanLoop"
               /\ bitstream' = NewBitstream
               /\ dc_predictions' = IF s.st = "done"
                                    THEN Zeros(Len(header.scan_info.components) + 1)
                                    ELSE dc_predictions
               /\ UNCHANGED <<data, overflow_checks, word, header, mcus_decoded,
                              result, bitmap,
                   component_block>>

\* a read_scan that decodes one row of the MCU grid only
McuCount_OneRow(hdr) == hdr.mcu_info.mcu_padded_dimensions[1]

\* the number of iterations of the `vert`/`horiz` loops of read_scan
McuCount(hdr) ==
    hdr.mcu_info.mcu_padded_dimensions[1] * hdr.mcu_info.mcu_padded_dimensions[2]

\* read_scan: one iteration of the MCU loops
DecodeMcu ==
    /\ result.status = "running"
    /\ pc = "Blocks"
    /\ mcus_decoded < McuCount(header)
    /\ \E b \in {decode_block(huffman_data, header, bitstream, dc_predictions)} :
          IF b.st # "ok" THEN Fail(b)
          ELSE /\ bitstream' = b.pos
               /\ dc_predictions' = b.val
               /\ mcus_decoded' = mcus_decoded + 1
               /\ UNCHANGED <<data, overflow_checks, pos, pc, word, header,
                              current_byte, huffman_data, result, bitmap,
                   component_block>>

\* read_scan after the MCU loops: blocks_to_bitmap, and decode returns
Assemble ==
    /\ result.status = "running"
    /\ pc = "Blocks"
    /\ mcus_decoded = McuCount(header)
    /\ \E b \in {blocks_to_bitmap(header)} :
          IF b.st # "ok" THEN Fail(b)
          ELSE /\ pc' = "Done"
               /\ bitmap' = b.val
               /\ result' = [status |-> "bitmap", kind |-> "", msg |-> ""]
               /\ UNCHANGED <<data, overflow_checks, pos, word, header, current_byte,
                              huffman_data, bitstream, dc_predictions, mcus_decoded,
                   component_block>>

Next ==
    \/ ReadSOI
    \/ ReadSegment
    \/ MarkerFill
    \/ ReadFirstByte
    \/ ReadHuffmanData
    \/ DecodeMcu
    \/ Assemble

Spec == Init /\ [][Next]_vars

\* decode is one sequential call: while a step is possible, one is taken.
\* The guards of the actions exclude one another, so this is weak fairness of
\* each action. For the marker loop and the MCU loops the enabling condition
\* is written out (the guard of the action: the step it guards always exists,
\* as a success or as a failure), which is WF_vars of the action unfolded.
FairSpec ==
    /\ Spec
    /\ WF_vars(ReadSOI)
    /\ WF_vars(MarkerFill)
    /\ WF_vars(ReadFirstByte)
    /\ WF_vars(ReadHuffmanData)
    /\ WF_vars(Assemble)
    /\ \/ []<>(~(result.status = "running" /\ pc = "Headers"))
       \/ []<><<ReadSegment>>_vars
    /\ \/ []<>(~(/\ result.status = "running"
                  /\ pc = "Blocks"
                  /\ mcus_decoded < McuCount(header)))
       \/ []<><<DecodeMcu>>_vars

-----------------------------------------------------------------------------
(* JPEGParser on its own: the public reads applied in any order to any    *)
(* short input, as in the tests read_words and read_markers                 *)

ReaderBytes == {0, 3, 216, 255}
MaxReader == 4

ReaderInit ==
    /\ data \in SeqsUpTo(ReaderBytes, MaxReader)
    /\ overflow_checks \in BOOLEAN
    /\ pos = 0
    /\ pc = "new"
    /\ word = 0
    /\ header = DefaultHeader
    /\ current_byte = 0
    /\ huffman_data = <<>>
    /\ bitstream = NewBitstream
    /\ dc_predictions = <<>>
    /\ mcus_decoded = 0
    /\ result = Running
    /\ bitmap = NoBitmap
    /\ component_block = <<>>

\* one call of a reader method: the cursor and the value it returns, or the
\* failure that ends the run
ReaderCall(method, r) ==
    /\ result.status = "running"
    /\ pc' = method
    /\ IF r.st # "ok"
       THEN /\ result' = [status |-> IF r.st = "panic" THEN "panic" ELSE "error",
                          kind |-> r.kind, msg |-> r.msg]
            /\ UNCHANGED <<pos, word>>
       ELSE /\ pos' = r.pos
            /\ word' = r.val
            /\ UNCHANGED result
    /\ UNCHANGED <<data, overflow_checks, header, current_byte, huffman_data,
                   bitstream, dc_predictions, mcus_decoded, bitmap,
                   component_block>>

ReaderByte == ReaderCall("read_next_byte", read_next_byte(pos))

ReaderWord == ReaderCall("read_next_word", read_next_word(pos))

ReaderMarker == ReaderCall("read_next_marker", read_next_marker(pos))

ReaderSkip == ReaderCall("skip_marker_with_length", skip_marker_with_length(pos))

ReaderNext ==
    \/ ReaderByte
    \/ ReaderWord
    \/ ReaderMarker
    \/ ReaderSkip

ReaderSpec == ReaderInit /\ [][ReaderNext]_vars

-----------------------------------------------------------------------------
(* Bitstream on its own: read_bits applied any number of times to any      *)
(* short buffer                                                             *)

BitBytes == {0, 128, 165, 255}
MaxBitBytes == 2
MaxBits == 9

BitsInit ==
    /\ data = <<>>
    /\ overflow_checks \in BOOLEAN
    /\ pos = 0
    /\ pc = "new"
    /\ word = 0
    /\ header = DefaultHeader
    /\ current_byte = 0
    /\ huffman_data \in SeqsUpTo(BitBytes, MaxBitBytes)
    /\ bitstream = NewBitstream
    /\ dc_predictions = <<>>
    /\ mcus_decoded = 0
    /\ result = Running
    /\ bitmap = NoBitmap
    /\ component_block = <<>>

\* one call read_bits(bits) on the bitstream over huffman_data
BitsRead(bits) ==
    /\ result.status = "running"
    /\ pc' = "read_bits"
    /\ \E r \in {read_bits(huffman_data, bitstream, bits)} :
          IF r.st # "ok"
          THEN /\ result' = [status |-> IF r.st = "panic" THEN "panic" ELSE "error",
                             kind |-> r.kind, msg |-> r.msg]
               /\ UNCHANGED <<bitstream, word>>
          ELSE /\ bitstream' = r.pos
               /\ word' = r.val
               /\ UNCHANGED result
    /\ UNCHANGED <<data, overflow_checks, pos, header, current_byte, huffman_data,
                   dc_predictions, mcus_decoded, bitmap,
                   component_block>>

BitsNext == \E bits \in 1..MaxBits : BitsRead(bits)

BitsSpec == BitsInit /\ [][BitsNext]_vars

-----------------------------------------------------------------------------
(* read_huffman_tables on its own: one DHT segment with one table, for     *)
(* several choices of the 16 count bytes                                    *)

CountValues == {0, 1, 2, 255}

\* the segment after its marker: length, table_info, counts, symbols
DhtSegment(table_info, counts) ==
    W16(19 + SumSeq(counts)) \o <<table_info>> \o counts \o Zeros(SumSeq(counts))

\* the counts of the codes of length 1, 2, 3 and 16 vary and there is no
\* other code; or one code of each length and two of length 16 (a full tree)
DhtInputs ==
    {DhtSegment(table_info, <<c[1], c[2], c[3]>> \o Zeros(12) \o <<c[4]>>) :
        table_info \in {0, 16}, c \in [1..4 -> CountValues]}
    \cup {DhtSegment(table_info, [l \in 1..15 |-> 1] \o <<2>>) : table_info \in {0, 16}}

DhtInit ==
    /\ data \in DhtInputs
    /\ overflow_checks \in BOOLEAN
    /\ pos = 0
    /\ pc = "new"
    /\ word = 0
    /\ header = DefaultHeader
    /\ current_byte = 0
    /\ huffman_data = <<>>
    /\ bitstream = NewBitstream
    /\ dc_predictions = <<>>
    /\ mcus_decoded = 0
    /\ result = Running
    /\ bitmap = NoBitmap
    /\ component_block = <<>>

\* the DHT arm of read_header_info, the marker being read
DhtRead ==
    /\ result.status = "running"
    /\ pc = "new"
    /\ pc' = "read_huffman_tables"
    /\ \E r \in {HuffmanArm(header, read_huffman_tables(pos))} :
          IF r.st # "ok"
          THEN /\ result' = [status |-> IF r.st = "panic" THEN "panic" ELSE "error",
                             kind |-> r.kind, msg |-> r.msg]
               /\ UNCHANGED <<pos, header>>
          ELSE /\ pos' = r.pos
               /\ header' = r.val[1]
               /\ UNCHANGED result
    /\ UNCHANGED <<data, overflow_checks, word, current_byte, huffman_data, bitstream,
                   dc_predictions, mcus_decoded, bitmap,
                   component_block>>

DhtSpec == DhtInit /\ [][DhtRead]_vars

-----------------------------------------------------------------------------
(* RECEIVE and EXTEND of decode_block on their own: the category t is the  *)
(* symbol just decoded, the raw value is read from the buffer                *)

ExtendBytes == {0, 127, 128, 255}
MaxExtendBytes == 2

ExtendInit ==
    /\ data = <<>>
    /\ overflow_checks \in BOOLEAN
    /\ pos = 0
    /\ pc = "new"
    /\ word = 0
    /\ header = DefaultHeader
    /\ current_byte = 0
    /\ huffman_data \in SeqsUpTo(ExtendBytes, MaxExtendBytes)
    /\ bitstream = NewBitstream
    /\ dc_predictions = <<>>
    /\ mcus_decoded = 0
    /\ result = Running
    /\ bitmap = NoBitmap
    /\ component_block = <<>>

\* the value `diff` or `value` that RECEIVE and EXTEND leave, and the cursor
Extended(step, r) ==
    /\ result.status = "running"
    /\ pc' = step
    /\ IF r.st # "ok"
       THEN /\ result' = [status |-> IF r.st = "panic" THEN "panic" ELSE "error",
                          kind |-> r.kind, msg |-> r.msg]
            /\ UNCHANGED <<bitstream, word>>
       ELSE /\ bitstream' = r.pos
            /\ word' = r.val.raw
            /\ UNCHANGED result
    /\ UNCHANGED <<data, overflow_checks, pos, header, current_byte, huffman_data,
                   dc_predictions, mcus_decoded, bitmap,
                   component_block>>

\* decode_block lines 142-146 after DECODE returned the category dc_code
ExtendDcValue(dc_code) ==
    Extended("dc", ExtendDc(ReceiveDc(huffman_data,
                Ok(bitstream, [DataUnit(<<>>) EXCEPT !.sym = dc_code]))))

\* decode_block lines 181-187 after DECODE returned huffman_val
ExtendAcValue(huffman_val) ==
    Extended("ac", ExtendAc(ReceiveAc(huffman_data,
                Ok(bitstream, [DataUnit(<<>>) EXCEPT !.sym = huffman_val]))))

ExtendNext ==
    \/ \E dc_code \in 0..11 : ExtendDcValue(dc_code)
    \/ \E code_length \in 1..15 : ExtendAcValue(code_length)

ExtendSpec == ExtendInit /\ [][ExtendNext]_vars

-----------------------------------------------------------------------------
(* The stretch of decode_block on its own: the plane of the second          *)
(* component after its data units are decoded, in a frame whose first       *)
(* component has the largest sampling factors                               *)

MaxSampling == 2
SampleOffsets == {0, 255, 1000, -3000}

\* the fields of the header that the stretch reads
StretchHeader(max_xy, xy) ==
    [DefaultHeader EXCEPT
        !.components = <<[frame |-> [xy_sampling_factor |-> max_xy],
                          scan |-> [selector |-> 1]],
                         [frame |-> [xy_sampling_factor |-> xy],
                          scan |-> [selector |-> 2]]>>,
        !.mcu_info.max_xy_sampling_factor = max_xy]

\* Macroblock::new and the data units of the component: the samples of its
\* xy[2] rows of xy[1] data units (all different), the rest of the plane 0
DecodedPlane(max_xy, xy, offset) ==
    [y \in 1..(8 * max_xy[2]) |->
        [x \in 1..(8 * max_xy[1]) |->
            IF y <= 8 * xy[2] /\ x <= 8 * xy[1]
            THEN offset + (y - 1) * 8 * max_xy[1] + x
            ELSE 0]]

StretchInit ==
    /\ data = <<>>
    /\ overflow_checks \in BOOLEAN
    /\ pos = 0
    /\ pc = "decoded"
    /\ word = 0
    /\ \E max_xy \in (1..MaxSampling) \X (1..MaxSampling) :
          \E xy \in (1..max_xy[1]) \X (1..max_xy[2]) :
             \E offset \in SampleOffsets :
                /\ header = StretchHeader(max_xy, xy)
                /\ component_block = DecodedPlane(max_xy, xy, offset)
    /\ current_byte = 0
    /\ huffman_data = <<>>
    /\ bitstream = NewBitstream
    /\ dc_predictions = <<0, 0, 0>>
    /\ mcus_decoded = 0
    /\ result = Running
    /\ bitmap = NoBitmap

\* decode_block lines 246-264 for the second component
StretchComponent ==
    /\ result.status = "running"
    /\ pc = "decoded"
    /\ pc' = "stretched"
    /\ component_block' = stretched_block(header.mcu_info.max_xy_sampling_factor,
                                          header.components[2].frame.xy_sampling_factor,
                                          component_block)
    /\ UNCHANGED <<data, overflow_checks, pos, word, header, current_byte, huffman_data,
                   bitstream, dc_predictions, mcus_decoded, result, bitmap>>

StretchSpec == StretchInit /\ [][StretchComponent]_vars

-----------------------------------------------------------------------------
(* The properties                                                          *)

\* C1: for a well-formed baseline 3-component input whose SOF0 declares the
\* width W and the height H, decode returns a Bitmap of size (W, H), the
\* unpadded size, with exactly W * H * 3 bytes of data.
C1_BitmapOfDeclaredSize ==
    (result.status # "running" /\ data \in WellFormedInputs) =>
        LET H == 256 * data[8] + data[9]
            W == 256 * data[10] + data[11]
        IN  /\ result.status = "bitmap"
            /\ bitmap.size = <<W, H>>
            /\ bitmap.len = W * H * 3

\* C2: decode ends in a Bitmap or in an Error value (Malformed,
\* UnsupportedFeature, InternalError) and in no other way: it never panics,
\* and no Bitmap is returned once an error has occurred.
C2_BitmapOrError ==
    /\ result.status \in {"running", "bitmap", "error"}
    /\ result.status = "error" =>
          /\ result.kind \in {"Malformed", "UnsupportedFeature", "InternalError"}
          /\ bitmap = NoBitmap

\* C3: the top-level states are visited in the order Init, Headers, Scan,
\* Done, none skipped or re-entered: Headers is entered when the bytes just
\* consumed are SOI; the scan is entered when the SOS header at the cursor has
\* been consumed to its last field, and entropy bytes are read only then; the
\* bitstream is created and blocks are decoded only when the bytes consumed
\* last by entropy extraction are EOI; a Bitmap is returned only when every
\* MCU of the padded grid has been decoded.
C3_StateOrder ==
    [][LET rank(p) == CASE p \in {"Init", "InitFill"} -> 0
                        [] p \in {"Headers", "HeadersFill"} -> 1
                        [] p \in {"ScanFirst", "ScanLoop", "Blocks"} -> 2
                        [] p = "Done" -> 3
       IN  /\ rank(pc') \in {rank(pc), rank(pc) + 1}
           /\ (rank(pc) = 0 /\ rank(pc') = 1) =>
                 /\ pos' >= 2
                 /\ 256 * data[pos' - 1] + data[pos'] = SOI
           /\ (rank(pc) = 1 /\ rank(pc') = 2) =>
                 /\ 256 * data[pos + 1] + data[pos + 2] = SOS
                 /\ pos' = pos + 2 + 2 + 1 + 2 * data[pos + 5] + 3
                 /\ pc' = "ScanFirst"
                 /\ huffman_data = <<>>
           /\ (huffman_data' # huffman_data \/ current_byte' # current_byte) =>
                 /\ pc \in {"ScanFirst", "ScanLoop"}
                 /\ header.header_length > 0
                 /\ pos >= header.header_length
           /\ (pc' = "Blocks" /\ pc # "Blocks") =>
                 /\ pc = "ScanLoop"
                 /\ 256 * data[pos' - 1] + data[pos'] = EOI
                 /\ mcus_decoded' = 0
           /\ (mcus_decoded' # mcus_decoded \/ bitstream' # bitstream) =>
                 /\ pc = "Blocks"
                 /\ 256 * data[pos - 1] + data[pos] = EOI
           /\ (pc' = "Done" \/ result'.status = "bitmap") =>
                 /\ pc \in {"Blocks", "Done"}
                 /\ pc' = "Done"
                 /\ result'.status = "bitmap"
                 /\ mcus_decoded' = header'.mcu_info.mcu_padded_dimensions[1]
                                      * header'.mcu_info.mcu_padded_dimensions[2]
      ]_vars

\* C3 witness: a Bitmap has been returned after the four MCUs of a 2 x 2 grid
C3_Witness ==
    /\ pc = "Done"
    /\ result.status = "bitmap"
    /\ header.mcu_info.mcu_padded_dimensions = <<2, 2>>
    /\ mcus_decoded = 4

\* C4: when read_next_marker reads the word 0xFFFF it consumes the extra 0xFF
\* fill bytes and returns the marker that follows them: a stream in which
\* 0xFF bytes precede the SOF0 marker is parsed, SOF0 being the next marker,
\* and the decode of such a stream does not fail.
C4_MarkerFillTolerated ==
    data \in FillInputs =>
        /\ result.status \in {"running", "bitmap"}
        /\ pc \in {"ScanFirst", "ScanLoop", "Blocks", "Done"} =>
              header.frame_info.image_size = <<8, 8>>

\* C5: when read_next_marker fails on a word 0xFFxx whose xx is not 0x00, not
\* 0xFF and not a recognized marker code, the error is UnsupportedFeature;
\* so it is for an input that begins SOI, SOF2.  (A failed read leaves pos
\* at the word.)
C5_UnrecognizedMarkerUnsupported ==
    (/\ result.status = "error"
     /\ pc \in {"Init", "Headers"}
     /\ pos + 2 <= Len(data)
     /\ data[pos + 1] = 255
     /\ data[pos + 2] \notin {0, 255}
     /\ to_marker(256 * data[pos + 1] + data[pos + 2]).st # "ok")
        => result.kind = "UnsupportedFeature"

C7_ByteStuffingRoundTrip ==
    (/\ pc \in {"ScanFirst", "ScanLoop", "Blocks", "Done"}
     /\ Len(data) >= Len(BaseHeader)
     /\ SubSeq(data, 1, Len(BaseHeader)) = BaseHeader)
        => LET scan == SubSeq(data, Len(BaseHeader) + 1, Len(data))
           IN  \A c \in StuffedScans :
                  scan = c[1]
                     => /\ pc \in {"ScanFirst", "ScanLoop"} =>
                              /\ result.status = "running"
                              /\ pos <= Len(BaseHeader) + Len(Stuff(c[2])) + 2
                        /\ pc \in {"Blocks", "Done"} =>
                              /\ huffman_data = c[2]
                              /\ pos = Len(BaseHeader) + Len(Stuff(c[2])) + 2

\* C7 witness: the stuffed input 0xFF 0x00 0xA5, EOI and a further byte has
\* been extracted
C7_Witness ==
    /\ pc = "Blocks"
    /\ data = Stuffed(<<255, 165>>, <<165>>)
    /\ huffman_data = <<255, 165>>

\* C8: during entropy extraction a 0xFF followed by a non-zero byte that
\* forms a marker other than EOI (RST0..RST7 among them) makes the extraction
\* fail with UnsupportedFeature: the marker is not skipped and none of its
\* bytes is emitted.
C8_MarkerInScanUnsupported ==
    [][(/\ pc = "ScanLoop"
        /\ result.status = "running"
        /\ current_byte = 255
        /\ pos < Len(data)
        /\ 65280 + data[pos + 1] \in JPEGMarker \ {EOI})
          => /\ result'.status = "error"
             /\ result'.kind = "UnsupportedFeature"
             /\ huffman_data' = huffman_data
      ]_vars

\* C9: when SOS has been consumed and a scan component refers to a DC or AC
\* Huffman table or, through its frame component, to a quantization table
\* that no DHT or DQT segment has stored, decode fails with Malformed.
C9_MissingTableMalformed ==
    (/\ pc \in {"ScanFirst", "ScanLoop", "Blocks", "Done"}
     /\ \E i \in 1..Len(header.components) :
           \/ header.components[i].scan.dc_table \notin DOMAIN header.dc_huff_tables
           \/ header.components[i].scan.ac_table \notin DOMAIN header.ac_huff_tables
           \/ header.components[i].frame.qtable_id \notin DOMAIN header.quant_tables)
        => /\ result.status \in {"running", "error"}
           /\ result.status = "error" => result.kind = "Malformed"

\* C10: an input whose SOF0 declares a number of components other than 3, or
\* components whose identifiers are not 1, 2, 3, is rejected with
\* UnsupportedFeature: it never reaches block decode or bitmap assembly and
\* never produces a Bitmap.
C10_ComponentsUnsupported ==
    (/\ header.frame_info # DefaultHeader.frame_info
     /\ [i \in 1..Len(header.frame_info.components) |->
            header.frame_info.components[i].identifier] # <<1, 2, 3>>)
        => /\ pc \notin {"Blocks", "Done"}
           /\ mcus_decoded = 0
           /\ result.status \in {"running", "error"}
           /\ result.status = "error" => result.kind = "UnsupportedFeature"

\* C11: read_next_byte returns data[p] and moves the cursor by one,
\* read_next_word returns the big-endian word and moves it by two, and each
\* fails with Malformed "Unexpected end of input" when too few bytes remain.
C11_ReadsInOrder ==
    [][/\ pc' = "read_next_byte" =>
             IF pos + 1 <= Len(data)
             THEN /\ result'.status = "running"
                  /\ word' = data[pos + 1]
                  /\ pos' = pos + 1
             ELSE /\ result'.status = "error"
                  /\ result'.kind = "Malformed"
                  /\ result'.msg = "Unexpected end of input"
       /\ pc' = "read_next_word" =>
             IF pos + 2 <= Len(data)
             THEN /\ result'.status = "running"
                  /\ word' = 256 * data[pos + 1] + data[pos + 2]
                  /\ pos' = pos + 2
             ELSE /\ result'.status = "error"
                  /\ result'.kind = "Malformed"
                  /\ result'.msg = "Unexpected end of input"]_vars

\* C11 witness: two bytes were read one at a time and then the word 0xFFD8
C11_Witness ==
    /\ pc = "read_next_word"
    /\ result.status = "running"
    /\ pos = 4
    /\ data[3] = 255
    /\ data[4] = 216
    /\ word = 65496

\* C12: skip_marker_with_length reads the length L and moves the cursor L - 2
\* bytes on; when fewer than L - 2 bytes remain after the length it fails.
C12_SkipPastEndFails ==
    [][(/\ pc' = "skip_marker_with_length"
        /\ pos + 2 <= Len(data)
        /\ 256 * data[pos + 1] + data[pos + 2] >= 2)
          => IF pos + 256 * data[pos + 1] + data[pos + 2] <= Len(data)
             THEN /\ result'.status = "running"
                  /\ pos' = pos + 256 * data[pos + 1] + data[pos + 2]
             ELSE result'.status = "error"]_vars

BitOffset(bs) == 8 * bs.byte_cursor + bs.bit_cursor

\* C14: a read_bits(n) that asks for more bits than remain in the buffer
\* returns InternalError "Read past end of bit buffer" (and so does not index
\* the buffer at its length, which would panic).
C14_ReadPastEndIsError ==
    [][\A n \in 1..MaxBits :
          (BitsRead(n) /\ BitOffset(bitstream) + n > 8 * Len(huffman_data))
             => /\ result'.status = "error"
                /\ result'.kind = "InternalError"
                /\ result'.msg = "Read past end of bit buffer"]_vars

\* bit i (from 0) of the buffer, bit 7 of each byte first
BitOf(buf, i) == (buf[(i \div 8) + 1] \div (2 ^ (7 - (i % 8)))) % 2

\* the unsigned integer whose digits, high-order first, are bits p..p+n-1
RECURSIVE BitsAt(_, _, _)
BitsAt(buf, p, n) ==
    IF n = 0 THEN 0 ELSE 2 * BitsAt(buf, p, n - 1) + BitOf(buf, p + n - 1)

\* read_bits(a) followed by read_bits(b): the two values and the last cursor
TwoReads(first, buf, b) ==
    IF first.st # "ok" THEN first
    ELSE Read(Ok(first.pos, <<first.val>>), read_bits(buf, first.pos, b))

\* C15: with enough bits remaining, read_bits(n) at bit offset p returns the
\* integer made of bits p..p+n-1, most significant first, and leaves the
\* cursor at p+n; read_bits(a) then read_bits(n-a) return the same bits.
C15_MsbFirst ==
    [][\A n \in 1..MaxBits :
          (BitsRead(n) /\ BitOffset(bitstream) + n <= 8 * Len(huffman_data))
             => /\ result'.status = "running"
                /\ word' = BitsAt(huffman_data, BitOffset(bitstream), n)
                /\ BitOffset(bitstream') = BitOffset(bitstream) + n
                /\ bitstream'.bit_cursor \in 0..7
                /\ \A a \in 1..(n - 1) :
                      \E two \in {TwoReads(read_bits(huffman_data, bitstream, a),
                                           huffman_data, n - a)} :
                          /\ two.st = "ok"
                          /\ two.pos = bitstream'
                          /\ two.val[1] * (2 ^ (n - a)) + two.val[2] = word']_vars

\* C15 witness: nine bits were read across the byte boundary of A5 80
C15_Witness ==
    /\ pc = "read_bits"
    /\ result.status = "running"
    /\ huffman_data = <<165, 128>>
    /\ bitstream = [byte_cursor |-> 1, bit_cursor |-> 1]
    /\ word = 331

\* the first canonical code of length l for the counts, as an integer
RECURSIVE FirstCode(_, _)
FirstCode(counts, l) ==
    IF l = 1 THEN 0 ELSE 2 * (FirstCode(counts, l - 1) + counts[l - 1])

\* the tables of both classes in a header
HuffmanTablesIn(hdr) ==
    {hdr.ac_huff_tables[i] : i \in DOMAIN hdr.ac_huff_tables}
        \cup {hdr.dc_huff_tables[i] : i \in DOMAIN hdr.dc_huff_tables}

\* C16: every table built from 16 count bytes has as many codes as symbols
\* (the sum of the counts); the j-th code of length l is the first code of
\* that length plus j-1, the first code of length 1 is 0 and the first code
\* of length l is 2*(first code of length l-1 + count of length l-1); every
\* code fits in l <= 16 bits and the code counter does not overflow.
C16_HuffmanCanonicity ==
    pc = "read_huffman_tables" =>
        /\ result.status = "running"
        /\ \A t \in HuffmanTablesIn(header) :
              /\ Len(t.codes) = Len(t.symbols)
              /\ Len(t.codes) = SumSeq(t.bitcode_counts)
              /\ \A l \in 1..16 : \A j \in 1..t.bitcode_counts[l] :
                    /\ t.codes[SumSeq(SubSeq(t.bitcode_counts, 1, l - 1)) + j]
                          = FirstCode(t.bitcode_counts, l) + j - 1
                    /\ FirstCode(t.bitcode_counts, l) + j - 1 < 65536

\* the value of category t that the raw value v stands for
SignExtended(v, t) == IF v >= 2 ^ (t - 1) THEN v ELSE v - (2 ^ t - 1)

\* C17: for a category T > 0 (1..11 for a DC difference, 1..15 for an AC
\* coefficient) and the T bits V read, the decoded value is V if V >= 2^(T-1)
\* and V - (2^T - 1) otherwise, without an overflow of the i16 arithmetic;
\* for the DC category 0 no bit is consumed and the difference is 0.
C17_SignExtension ==
    [][/\ \A t \in 1..11 :
             (/\ ExtendDcValue(t)
              /\ BitOffset(bitstream) + t <= 8 * Len(huffman_data))
                => /\ result'.status = "running"
                   /\ word' = SignExtended(BitsAt(huffman_data, BitOffset(bitstream), t), t)
                   /\ word' \in -(2 ^ t - 1)..(2 ^ t - 1)
       /\ \A t \in 1..15 :
             (/\ ExtendAcValue(t)
              /\ BitOffset(bitstream) + t <= 8 * Len(huffman_data))
                => /\ result'.status = "running"
                   /\ word' = SignExtended(BitsAt(huffman_data, BitOffset(bitstream), t), t)
                   /\ word' \in -(2 ^ t - 1)..(2 ^ t - 1)
       /\ (ExtendDcValue(0) /\ BitOffset(bitstream) < 8 * Len(huffman_data))
                => /\ result'.status = "running"
                   /\ word' = 0
                   /\ bitstream' = bitstream]_vars

\* C18: the predictors are 0 at the start of the scan; after n MCUs the
\* predictor of a component is the sum of the DC differences decoded for
\* that component in these MCUs (so a data unit changes the predictor of its
\* own component only, by its difference, and the value carries over to the
\* next MCU), up to the end of the scan.
C18_DcPredictor ==
    \A c \in PredictorScans :
        data = c.data
           => /\ result.status \notin {"panic", "error"}
              /\ pc \in {"Blocks", "Done"} =>
                    dc_predictions
                       = <<0>> \o [k \in 1..3 |->
                                      SumSeq([i \in 1..mcus_decoded |-> c.diffs[i][k]])]
              /\ pc = "Done" => mcus_decoded = Len(c.diffs)

\* C19: when k += 1 and k += run leave k > 63 for a symbol that is neither
\* EOB nor ZRL the decode fails with Malformed and stores nothing; a run that
\* lands on k <= 63 (k = 63 included) is decoded.
C19_RunLengthCheck ==
    \A c \in RunScans :
        data = c.data
           => IF c.k > 63
              THEN /\ mcus_decoded = 0
                   /\ result.status # "panic"
                   /\ result.status = "error" => result.kind = "Malformed"
              ELSE result.status \notin {"panic", "error"}

\* C20: with hr = Hmax / Hi and vr = Vmax / Vi, after the stretch every
\* sample (y, x) of the 8*Vmax by 8*Hmax plane is the sample that stood at
\* (y / vr, x / hr) before the stretch; with Hi = Hmax and Vi = Vmax the
\* plane is unchanged.
C20_Upsampling ==
    [][pc' = "stretched" =>
          LET max_xy == header.mcu_info.max_xy_sampling_factor
              xy == header.components[2].frame.xy_sampling_factor
          IN  /\ \A y \in 0..(8 * max_xy[2] - 1) : \A x \in 0..(8 * max_xy[1] - 1) :
                    component_block'[y + 1][x + 1]
                       = component_block[(y \div (max_xy[2] \div xy[2])) + 1]
                                        [(x \div (max_xy[1] \div xy[1])) + 1]
              /\ xy = max_xy => component_block' = component_block]_vars

\* C20 witness: a 16x8 plane of a component sampled 1x1 under 2x1, stretched
\* to twice its width: the last two samples of the first row are the eighth
C20_Witness ==
    /\ pc = "stretched"
    /\ header.mcu_info.max_xy_sampling_factor = <<2, 1>>
    /\ header.components[2].frame.xy_sampling_factor = <<1, 1>>
    /\ component_block[1] = <<1, 1, 2, 2, 3, 3, 4, 4, 5, 5, 6, 6, 7, 7, 8, 8>>
    /\ component_block[2][16] = 24

\* values of k at the top of the AC loop, below, at and beyond 63
LoopCounters == {0, 47, 62, 63, 64, 80, 239, 240, 254}

\* one iteration of the AC loop from the cursor of the state, with k as given
AcIteration(k) ==
    AcCoefficient(huffman_data,
        Decode(huffman_data,
               AddK(Ok(bitstream, [DataUnit(dc_predictions) EXCEPT !.k = k]), 1),
               header.ac_huff_tables[header.components[1].scan.ac_table]))

\* C21: decode stops for every input, with a Bitmap, an error or a panic.
\* Every step of the marker loop, of the marker-fill loop and of the
\* entropy-extraction loop that does not end the decode moves the reader
\* forward, every decoded MCU moves the bit cursor forward, and an iteration
\* of the AC loop that goes on has consumed at least one bit, whatever k is
\* (also beyond 63).
C21_Termination ==
    /\ [][/\ (/\ pc \in {"Init", "InitFill", "Headers", "HeadersFill",
                         "ScanFirst", "ScanLoop"}
              /\ result'.status = "running")
                => /\ pos' > pos
                   /\ pos' <= Len(data) \/ pc' = "Headers"
          /\ mcus_decoded' # mcus_decoded
                => /\ mcus_decoded' = mcus_decoded + 1
                   /\ BitOffset(bitstream') > BitOffset(bitstream)
                   /\ BitOffset(bitstream') <= 8 * Len(huffman_data)]_vars
    /\ [](\A k \in LoopCounters :
            (/\ pc = "Blocks"
             /\ result.status = "running"
             /\ header.components # <<>>
             /\ header.components[1].scan.ac_table \in DOMAIN header.ac_huff_tables)
               => \E d \in {AcIteration(k)} :
                     d.st = "ok" => /\ BitOffset(d.pos) > BitOffset(bitstream)
                                    /\ BitOffset(d.pos) <= 8 * Len(huffman_data))
    /\ <>(result.status \in {"bitmap", "error", "panic"})

\* C21 witness: a run of ZRL symbols took k beyond 63 and on to the u8
\* overflow of `k += 15`; the decode has stopped there
C21_Witness ==
    /\ data \in ZrlInputs
    /\ pc = "Blocks"
    /\ result.status = "panic"
    /\ result.msg = "attempt to add with overflow"

====
